---- MODULE Spec2Model ----
(***************************************************************************)
(* Model of jira_analyzer.py: a single-shot batch script that splits a     *)
(* text dump into tickets, batches them, sends each batch to a language    *)
(* model over HTTP, parses the reply between <JSON> tags and renders one   *)
(* HTML card per result object.                                            *)
(*                                                                         *)
(* Texts (the input dump, the model's reply, the JSONL file) are sequences *)
(* of tokens; a token is a record [k, s] or [k, n].  Python/JSON values    *)
(* are tagged records; Python None and JSON null are the same value.       *)
(***************************************************************************)
EXTENDS Integers, Sequences, FiniteSets, TLC

VARIABLES pc, raw_text, tickets, chunks, idx, posts, responses, raw_output,
          parsed, skipped, jsonl_open, jsonl_file, gen_calls, html_file

vars == <<pc, raw_text, tickets, chunks, idx, posts, responses, raw_output,
          parsed, skipped, jsonl_open, jsonl_file, gen_calls, html_file>>

(***************************************************************************)
(* Program constants                                                       *)
(***************************************************************************)
TICKETS_PER_CHUNK == 3

JIRA_DOMAIN == "https://your-jira-domain/browse/"

(***************************************************************************)
(* Python / JSON values                                                    *)
(***************************************************************************)
Null == [t |-> "null"]
Num(n) == [t |-> "num", n |-> n]
Str(s) == [t |-> "str", s |-> s]
Bool(b) == [t |-> "bool", b |-> b]
Arr(a) == [t |-> "arr", a |-> a]
Obj(o) == [t |-> "obj", o |-> o]
Pair(k, v) == [k |-> k, v |-> v]

(***************************************************************************)
(* Tokens of a text                                                        *)
(***************************************************************************)
Ws == [k |-> "ws", s |-> " "]
Nl == [k |-> "ws", s |-> "\n"]
Txt(s) == [k |-> "text", s |-> s]
Tag(s) == [k |-> "tag", s |-> s]
P(c) == [k |-> "punct", s |-> c]
TStr(s) == [k |-> "string", s |-> s]
TNum(n) == [k |-> "number", n |-> n]
TLit(s) == [k |-> "lit", s |-> s]

TagOpen == Tag("<JSON>")
TagClose == Tag("</JSON>")

(***************************************************************************)
(* str.strip, str.find and slicing, on token sequences (0-based indices    *)
(* as in Python)                                                           *)
(***************************************************************************)
IsSpace(tok) == tok.k = "ws"

\* the text without its leading and trailing whitespace
strip(s) ==
    IF \A i \in 1..Len(s) : IsSpace(s[i]) THEN <<>>
    ELSE LET first == CHOOSE i \in 1..Len(s) : ~IsSpace(s[i]) /\ \A j \in 1..(i - 1) : IsSpace(s[j])
             last == CHOOSE i \in 1..Len(s) : ~IsSpace(s[i]) /\ \A j \in (i + 1)..Len(s) : IsSpace(s[j])
         IN SubSeq(s, first, last)

find(s, tok) ==
    IF \E i \in 1..Len(s) : s[i] = tok
    THEN (CHOOSE i \in 1..Len(s) : s[i] = tok /\ \A j \in 1..(i - 1) : s[j] # tok) - 1
    ELSE -1

Min(a, b) == IF a < b THEN a ELSE b

\* s[a:b] for a, b >= 0: out-of-range bounds are clamped to len(s)
Slice(s, a, b) == SubSeq(s, Min(a, Len(s)) + 1, Min(b, Len(s)))

\* "v = x; F(v)": x is evaluated once and F applied to its value
With(x, F(_)) == CHOOSE out \in {F(v) : v \in {x}} : TRUE

(***************************************************************************)
(* json.loads: a value is a scalar token, or "[" items "]", or             *)
(* "{" members "}", the items and members being separated by the commas    *)
(* that are not inside a nested bracket; whitespace is skipped between     *)
(* tokens                                                                  *)
(***************************************************************************)
ParseFail == [ok |-> FALSE, val |-> Null]
ParseOk(v) == [ok |-> TRUE, val |-> v]

\* what is parsed from a place where no value is written
Fail == [t |-> "fail"]

RECURSIVE HasFail(_)
HasFail(v) ==
    CASE v.t = "fail" -> TRUE
      [] v.t = "arr" -> \E i \in 1..Len(v.a) : HasFail(v.a[i])
      [] v.t = "obj" -> \E i \in 1..Len(v.o) : HasFail(v.o[i].v)
      [] OTHER -> FALSE

Opens == {P("["), P("{")}
Closes == {P("]"), P("}")}

\* brackets opened and not closed again between positions a and k - 1
Nesting(toks, a, k) ==
    Cardinality({m \in a..(k - 1) : toks[m] \in Opens})
        - Cardinality({m \in a..(k - 1) : toks[m] \in Closes})

\* first position of a..b that is not whitespace, b + 1 when there is none
FirstTok(toks, a, b) ==
    IF \A m \in a..b : IsSpace(toks[m]) THEN b + 1
    ELSE CHOOSE m \in a..b : ~IsSpace(toks[m]) /\ \A n \in a..(m - 1) : IsSpace(toks[n])

\* last position of a..b that is not whitespace, a - 1 when there is none
LastTok(toks, a, b) ==
    IF \A m \in a..b : IsSpace(toks[m]) THEN a - 1
    ELSE CHOOSE m \in a..b : ~IsSpace(toks[m]) /\ \A n \in (m + 1)..b : IsSpace(toks[n])

\* G applied to each of the ranges that the commas of a..b outside nested
\* brackets cut a..b into
ParseItems(toks, a, b, G(_, _, _)) ==
    With(SelectSeq([n \in 1..(b - a + 1) |-> a + n - 1],
                   LAMBDA k : toks[k] = P(",") /\ Nesting(toks, a, k) = 0), LAMBDA cuts :
        [p \in 1..(Len(cuts) + 1) |->
            G(toks, IF p = 1 THEN a ELSE cuts[p - 1] + 1,
                    IF p > Len(cuts) THEN b ELSE cuts[p] - 1)] \o <<>>)

LitValue(s) ==
    CASE s = "true" -> Bool(TRUE)
      [] s = "false" -> Bool(FALSE)
      [] OTHER -> Null

ParseScalar(tk) ==
    CASE tk.k = "string" -> Str(tk.s)
      [] tk.k = "number" -> Num(tk.n)
      [] tk.k = "lit" -> LitValue(tk.s)
      [] OTHER -> Fail

\* the dict filled member by member: a repeated key keeps its first
\* position and takes its last value
DictOf(ms) ==
    With(SelectSeq([p \in 1..Len(ms) |-> p],
                   LAMBDA p : \A q \in 1..(p - 1) : ms[q].k # ms[p].k), LAMBDA firsts :
        [n \in 1..Len(firsts) |->
            LET key == ms[firsts[n]].k
                last == CHOOSE p \in 1..Len(ms) :
                            ms[p].k = key /\ \A q \in (p + 1)..Len(ms) : ms[q].k # key
            IN Pair(key, ms[last].v)] \o <<>>)

RECURSIVE ParseValue(_, _, _)
RECURSIVE ParseArray(_, _, _)
RECURSIVE ParseMember(_, _, _)
RECURSIVE ParseObject(_, _, _)

\* the value written in toks[lo..hi]; Fail, or a value with Fail in it,
\* when toks[lo..hi] is not a JSON text
ParseValue(toks, lo, hi) ==
    With(<<FirstTok(toks, lo, hi), LastTok(toks, lo, hi)>>, LAMBDA e :
        LET a == e[1]
            b == e[2]
        IN IF a > b THEN Fail
           ELSE IF a = b THEN ParseScalar(toks[a])
           ELSE IF toks[a] = P("[") /\ toks[b] = P("]") THEN ParseArray(toks, a + 1, b - 1)
           ELSE IF toks[a] = P("{") /\ toks[b] = P("}") THEN ParseObject(toks, a + 1, b - 1)
           ELSE Fail)

\* the items between "[" and "]"
ParseArray(toks, a, b) ==
    IF \A m \in a..b : IsSpace(toks[m]) THEN Arr(<<>>)
    ELSE Arr(ParseItems(toks, a, b, ParseValue))

\* one member: a string, ":" and a value
ParseMember(toks, lo, hi) ==
    LET s == FirstTok(toks, lo, hi)
        c == FirstTok(toks, s + 1, hi)
    IN IF s > hi \/ toks[s].k # "string" THEN Pair("", Fail)
       ELSE IF c > hi \/ toks[c] # P(":") THEN Pair("", Fail)
       ELSE Pair(toks[s].s, ParseValue(toks, c + 1, hi))

\* the members between "{" and "}"
ParseObject(toks, a, b) ==
    IF \A m \in a..b : IsSpace(toks[m]) THEN Obj(<<>>)
    ELSE With(ParseItems(toks, a, b, ParseMember), LAMBDA ms :
            IF \E p \in 1..Len(ms) : HasFail(ms[p].v) THEN Fail
            ELSE Obj(DictOf(ms)))

\* json.loads(text): ok = FALSE stands for the JSONDecodeError it raises
loads(text) ==
    With(text, LAMBDA toks :
        With(ParseValue(toks, 1, Len(toks)), LAMBDA v :
            IF HasFail(v) THEN ParseFail ELSE ParseOk(v)))

(***************************************************************************)
(* json.dumps with the default separators ", " and ": "                    *)
(***************************************************************************)
\* ss[lo] \o ... \o ss[hi], for sequences and for strings
RECURSIVE Concat(_, _, _, _)
Concat(ss, lo, hi, empty) ==
    IF lo > hi THEN empty
    ELSE IF lo = hi THEN ss[lo]
    ELSE LET mid == (lo + hi) \div 2
         IN Concat(ss, lo, mid, empty) \o Concat(ss, mid + 1, hi, empty)

RECURSIVE dumps(_)

dumps(v) ==
    CASE v.t = "null" -> <<TLit("null")>>
      [] v.t = "bool" -> <<TLit(IF v.b THEN "true" ELSE "false")>>
      [] v.t = "num" -> <<TNum(v.n)>>
      [] v.t = "str" -> <<TStr(v.s)>>
      [] v.t = "arr" ->
            <<P("[")>>
            \o Concat([i \in 1..Len(v.a) |->
                          (IF i = 1 THEN <<>> ELSE <<P(","), Ws>>) \o dumps(v.a[i])],
                      1, Len(v.a), <<>>)
            \o <<P("]")>>
      [] v.t = "obj" ->
            <<P("{")>>
            \o Concat([i \in 1..Len(v.o) |->
                          (IF i = 1 THEN <<>> ELSE <<P(","), Ws>>)
                          \o <<TStr(v.o[i].k), P(":"), Ws>> \o dumps(v.o[i].v)],
                      1, Len(v.o), <<>>)
            \o <<P("}")>>

(***************************************************************************)
(* An optional text: None, or a token sequence                             *)
(***************************************************************************)
PyNone == [none |-> TRUE, text |-> <<>>]
PyText(toks) == [none |-> FALSE, text |-> toks]

(***************************************************************************)
(* extract_json                                                            *)
(***************************************************************************)
extract_json(raw) ==
    IF raw.none THEN Null
    ELSE With(strip(raw.text), LAMBDA rs :
            LET start == find(rs, TagOpen)
                end == find(rs, TagClose)
            IN IF start = -1 \/ end = -1 THEN Null
               ELSE LET json_block == strip(Slice(rs, start + 1, end)) IN
                    With(loads(json_block), LAMBDA data :
                        IF ~data.ok THEN Null
                        ELSE IF data.val.t = "obj" THEN Arr(<<data.val>>)
                        ELSE data.val))

(***************************************************************************)
(* extract_tickets: re.finditer(r"(?m)^.*Jira.*\n\[G7APP-\d+\]", text)     *)
(* A text token is a run of characters without newline; Txt("Jira") is     *)
(* text containing "Jira", a token of KeyTokens is text of the form        *)
(* [G7APP-<digits>].                                                       *)
(***************************************************************************)
Jira == Txt("Jira")
Key1 == Txt("[G7APP-1]")
Key2 == Txt("[G7APP-22]")
KeyTokens == {Key1, Key2}

\* '^' under (?m): position p (0-based) is at the start of the text or just after "\n"
AtLineStart(text, p) == p = 0 \/ text[p] = Nl

\* 0-based position of the first "\n" at or after p, or len(text) when there is none
LineEnd(text, p) ==
    IF \E e \in p..(Len(text) - 1) : text[e + 1] = Nl
    THEN CHOOSE e \in p..(Len(text) - 1) : text[e + 1] = Nl /\ \A f \in p..(e - 1) : text[f + 1] # Nl
    ELSE Len(text)

\* the pattern matches with its first character at position p
MatchAt(text, p) ==
    /\ p < Len(text)
    /\ AtLineStart(text, p)
    /\ LET e == LineEnd(text, p) IN
        /\ \E i \in p..(e - 1) : text[i + 1] = Jira
        /\ e + 1 < Len(text)
        /\ text[e + 2] \in KeyTokens

\* end (exclusive) of the match that starts at p
MatchEnd(text, p) == LineEnd(text, p) + 2

\* finditer: leftmost match at or after pos, then resume at its end (matches never overlap)
RECURSIVE finditer(_, _)
finditer(text, pos) ==
    With({q \in pos..(Len(text) - 1) : MatchAt(text, q)}, LAMBDA found :
        IF found = {} THEN <<>>
        ELSE LET p == CHOOSE q \in found : \A r \in found : q <= r
             IN <<p>> \o finditer(text, MatchEnd(text, p)))

extract_tickets(text) ==
    With(finditer(text, 0), LAMBDA matches :
        [i \in 1..Len(matches) |->
            LET start == matches[i]
                end == IF i + 1 <= Len(matches) THEN matches[i + 1] ELSE Len(text)
            IN strip(Slice(text, start, end))])

(***************************************************************************)
(* chunk_tickets                                                           *)
(***************************************************************************)
Sep == Txt("\n\n---\n\n")

RECURSIVE join(_, _)
join(sep, items) ==
    IF items = <<>> THEN <<>>
    ELSE IF Len(items) = 1 THEN items[1]
    ELSE items[1] \o <<sep>> \o join(sep, Tail(items))

\* the loop "for i in range(0, len(tickets), TICKETS_PER_CHUNK)" from index i on
RECURSIVE ChunkLoop(_, _)
ChunkLoop(tks, i) ==
    IF i >= Len(tks) THEN <<>>
    ELSE <<join(Sep, Slice(tks, i, i + TICKETS_PER_CHUNK))>> \o ChunkLoop(tks, i + TICKETS_PER_CHUNK)

\* mutant: the loop starts at the second ticket
chunk_tickets_from_one(tks) == ChunkLoop(tks, 1)

chunk_tickets(tks) == ChunkLoop(tks, 0)

(***************************************************************************)
(* call_gemini: the outcome of the HTTP POST, and what call_gemini returns *)
(* for it                                                                  *)
(***************************************************************************)
Response(exc, status, shape_ok, text) ==
    [exc |-> exc, status |-> status, shape_ok |-> shape_ok, text |-> text]

call_gemini_result(resp) ==
    IF resp.exc THEN PyNone
    ELSE IF resp.status # 200 THEN PyNone
    ELSE IF ~resp.shape_ok THEN PyNone
    ELSE PyText(resp.text)

(***************************************************************************)
(* Python semantics used by generate_html: truthiness, dict.get,           *)
(* iteration, str() and repr()                                             *)
(***************************************************************************)
Truthy(v) ==
    CASE v.t = "null" -> FALSE
      [] v.t = "bool" -> v.b
      [] v.t = "num" -> v.n # 0
      [] v.t = "str" -> v.s # ""
      [] v.t = "arr" -> v.a # <<>>
      [] v.t = "obj" -> v.o # <<>>

\* obj.get(key, default) on a dict
get(d, key, default) ==
    IF \E i \in 1..Len(d.o) : d.o[i].k = key
    THEN d.o[CHOOSE i \in 1..Len(d.o) : d.o[i].k = key].v
    ELSE default

\* the characters of the strings that occur as values in the model
Chars(s) ==
    CASE s = "" -> <<>>
      [] Len(s) = 1 -> <<s>>
      [] s = "ab" -> <<"a", "b">>

\* "for x in v": a list yields its elements, a str its characters, a dict
\* its keys; anything else raises TypeError (ok = FALSE)
iter(v) ==
    CASE v.t = "arr" -> [ok |-> TRUE, items |-> v.a]
      [] v.t = "str" -> [ok |-> TRUE, items |-> [i \in 1..Len(Chars(v.s)) |-> Str(Chars(v.s)[i])]]
      [] v.t = "obj" -> [ok |-> TRUE, items |-> [i \in 1..Len(v.o) |-> Str(v.o[i].k)]]
      [] OTHER -> [ok |-> FALSE, items |-> <<>>]

RECURSIVE repr(_)

repr(v) ==
    CASE v.t = "null" -> "None"
      [] v.t = "bool" -> IF v.b THEN "True" ELSE "False"
      [] v.t = "num" -> ToString(v.n)
      [] v.t = "str" -> "'" \o v.s \o "'"
      [] v.t = "arr" ->
            "[" \o Concat([i \in 1..Len(v.a) |->
                              (IF i = 1 THEN "" ELSE ", ") \o repr(v.a[i])],
                          1, Len(v.a), "")
                \o "]"
      [] v.t = "obj" ->
            "{" \o Concat([i \in 1..Len(v.o) |->
                              (IF i = 1 THEN "" ELSE ", ")
                              \o "'" \o v.o[i].k \o "': " \o repr(v.o[i].v)],
                          1, Len(v.o), "")
                \o "}"

\* str(v), as applied by str() and by an f-string field
format(v) == IF v.t = "str" THEN v.s ELSE repr(v)

(***************************************************************************)
(* list_to_html                                                            *)
(***************************************************************************)
\* "".join(f"<li>{x}</li>" for x in entries)
JoinLi(entries) ==
    Concat([i \in 1..Len(entries) |-> "<li>" \o entries[i] \o "</li>"], 1, Len(entries), "")

DefaultLi == "<li>-</li>"

\* ok = FALSE stands for the TypeError of iterating a non-iterable
list_to_html(items) ==
    IF ~Truthy(items) THEN [ok |-> TRUE, html |-> DefaultLi]
    ELSE LET it == iter(items) IN
         IF ~it.ok THEN [ok |-> FALSE, html |-> ""]
         ELSE LET kept == SelectSeq(it.items, LAMBDA x : x.t # "null")
                  safe_items == [i \in 1..Len(kept) |-> format(kept[i])]
              IN IF safe_items = <<>> THEN [ok |-> TRUE, html |-> DefaultLi]
                 ELSE [ok |-> TRUE, html |-> JoinLi(safe_items)]

(***************************************************************************)
(* generate_html: one card per result object                               *)
(***************************************************************************)
NoCard == [ok |-> FALSE, card |-> <<>>]

badge_class_of(category) ==
    IF category.t = "str" /\ category.s = "Solvable Bug" THEN "green"
    ELSE IF category.t = "str" /\ category.s = "Needs More Details" THEN "amber"
    ELSE "gray"

\* mutant: the constructed link takes precedence over the object's own link
link_of_key_first(obj, ticket_key) ==
    LET l == get(obj, "link", Null) IN
    IF Truthy(ticket_key)
    THEN IF ticket_key.t = "str"
         THEN [ok |-> TRUE, v |-> Str(JIRA_DOMAIN \o ticket_key.s)]
         ELSE [ok |-> FALSE, v |-> Null]
    ELSE IF Truthy(l) THEN [ok |-> TRUE, v |-> l]
    ELSE [ok |-> TRUE, v |-> Str("#")]

\* obj.get("link") or (JIRA_DOMAIN + ticket_key if ticket_key else "#");
\* ok = FALSE stands for the TypeError of str + non-str
link_of(obj, ticket_key) ==
    LET l == get(obj, "link", Null) IN
    IF Truthy(l) THEN [ok |-> TRUE, v |-> l]
    ELSE IF Truthy(ticket_key)
         THEN IF ticket_key.t = "str"
              THEN [ok |-> TRUE, v |-> Str(JIRA_DOMAIN \o ticket_key.s)]
              ELSE [ok |-> FALSE, v |-> Null]
    ELSE [ok |-> TRUE, v |-> Str("#")]

\* the body of "for obj in results"; ok = FALSE stands for an exception
\* (AttributeError of obj.get on a non-dict, or a TypeError below)
render_card(obj) ==
    IF obj.t # "obj" THEN NoCard
    ELSE LET ticket_key == get(obj, "ticket_key", Str(""))
             status == get(obj, "status", Str(""))
             category == get(obj, "category", Str(""))
             summary == get(obj, "summary", Str(""))
             root_cause == list_to_html(get(obj, "root_cause", Arr(<<>>)))
             reasoning == list_to_html(get(obj, "reasoning", Arr(<<>>)))
             fix == list_to_html(get(obj, "fix_recommendation", Arr(<<>>)))
             risk == list_to_html(get(obj, "risk", Arr(<<>>)))
             missing == list_to_html(get(obj, "missing_details", Arr(<<>>)))
             link == link_of(obj, ticket_key)
         IN IF ~(link.ok /\ root_cause.ok /\ reasoning.ok /\ fix.ok /\ risk.ok /\ missing.ok)
            THEN NoCard
            ELSE [ok |-> TRUE,
                  card |-> [link |-> format(link.v),
                            ticket_key |-> format(ticket_key),
                            badge_class |-> badge_class_of(category),
                            category |-> format(category),
                            status |-> format(status),
                            summary |-> format(summary),
                            root_cause |-> root_cause.html,
                            reasoning |-> reasoning.html,
                            fix |-> fix.html,
                            risk |-> risk.html,
                            missing |-> missing.html]]

\* "for line in f": the file cut after every "\n"
SplitLines(file) ==
    With(SelectSeq([k \in 1..Len(file) |-> k], LAMBDA k : file[k] = Nl), LAMBDA ends :
        LET whole == [p \in 1..Len(ends) |->
                        SubSeq(file, IF p = 1 THEN 1 ELSE ends[p - 1] + 1, ends[p])] \o <<>>
            last == IF ends = <<>> THEN 0 ELSE ends[Len(ends)]
        IN IF last < Len(file) THEN Append(whole, SubSeq(file, last + 1, Len(file)))
           ELSE whole)

HtmlRaised == [ok |-> FALSE, cards |-> <<>>]

\* the body of "for line in f": the cards of one line
RenderLine(line) ==
    IF strip(line) = <<>> THEN [ok |-> TRUE, cards |-> <<>>]
    ELSE With(loads(line), LAMBDA data :
            IF ~data.ok \/ data.val.t # "obj" THEN HtmlRaised
            ELSE LET results == iter(get(data.val, "results", Arr(<<>>))) IN
                 IF ~results.ok THEN HtmlRaised
                 ELSE With([j \in 1..Len(results.items) |-> render_card(results.items[j])] \o <<>>,
                           LAMBDA cs :
                              IF \E j \in 1..Len(cs) : ~cs[j].ok THEN HtmlRaised
                              ELSE [ok |-> TRUE,
                                    cards |-> [j \in 1..Len(cs) |-> cs[j].card] \o <<>>]))

\* the loop over the lines: the first exception leaves it, and no card is kept
RenderLines(lines) ==
    With([i \in 1..Len(lines) |-> RenderLine(lines[i])] \o <<>>, LAMBDA rs :
        IF \E i \in 1..Len(rs) : ~rs[i].ok THEN HtmlRaised
        ELSE [ok |-> TRUE,
              cards |-> Concat([i \in 1..Len(rs) |-> rs[i].cards], 1, Len(rs), <<>>)])

\* mutant: only the first line of the file is rendered
generate_html_first_line(file) ==
    With(SplitLines(file), LAMBDA lines : RenderLines(SubSeq(lines, 1, Min(1, Len(lines)))))

\* ok = FALSE: an exception leaves generate_html before the report is written
generate_html(file) == With(SplitLines(file), LAMBDA lines : RenderLines(lines))

(***************************************************************************)
(* main, one action per step between two points where the outside world    *)
(* (the API) can act                                                       *)
(***************************************************************************)
Record(i, results) == Obj(<<Pair("chunk", Num(i)), Pair("results", results)>>)

NoReport == [written |-> FALSE, cards |-> <<>>]

\* read_text, extract_tickets and the "no tickets" early return
ExtractTickets ==
    /\ pc = "start"
    /\ tickets' = extract_tickets(raw_text)
    /\ pc' = IF tickets' = <<>> THEN "no_tickets" ELSE "chunk"
    /\ UNCHANGED <<raw_text, chunks, idx, posts, responses, raw_output, parsed,
                   skipped, jsonl_open, jsonl_file, gen_calls, html_file>>

\* chunk_tickets and open(jsonl_path, "w")
ChunkTickets ==
    /\ pc = "chunk"
    /\ chunks' = chunk_tickets(tickets)
    /\ jsonl_open' = "open"
    /\ jsonl_file' = <<>>
    /\ idx' = 0
    /\ pc' = "loop"
    /\ UNCHANGED <<raw_text, tickets, posts, responses, raw_output, parsed,
                   skipped, gen_calls, html_file>>

\* mutant: the request is sent twice
Post_twice ==
    /\ pc = "loop"
    /\ idx < Len(chunks)
    /\ posts' = posts \o <<idx, idx>>
    /\ pc' = "wait"
    /\ UNCHANGED <<raw_text, tickets, chunks, idx, responses, raw_output, parsed,
                   skipped, jsonl_open, jsonl_file, gen_calls, html_file>>

\* loop head and call_gemini up to requests.post: an empty chunk returns
\* None without a request
Post ==
    /\ pc = "loop"
    /\ idx < Len(chunks)
    /\ IF chunks[idx + 1] = <<>>
       THEN /\ raw_output' = PyNone
            /\ pc' = "parse"
            /\ UNCHANGED posts
       ELSE /\ posts' = Append(posts, idx)
            /\ pc' = "wait"
            /\ UNCHANGED raw_output
    /\ UNCHANGED <<raw_text, tickets, chunks, idx, responses, parsed, skipped,
                   jsonl_open, jsonl_file, gen_calls, html_file>>

\* the request returns, fails or times out; rest of call_gemini
Receive(resp) ==
    /\ pc = "wait"
    /\ responses' = Append(responses, [chunk |-> idx, resp |-> resp])
    /\ raw_output' = call_gemini_result(resp)
    /\ pc' = "parse"
    /\ UNCHANGED <<raw_text, tickets, chunks, idx, posts, parsed, skipped,
                   jsonl_open, jsonl_file, gen_calls, html_file>>

\* mutant: "break" instead of "continue" on a chunk that did not parse
Settle_break ==
    /\ pc = "parse"
    /\ parsed' = extract_json(raw_output)
    /\ IF parsed'.t = "null"
       THEN /\ skipped' = Append(skipped, idx)
            /\ idx' = Len(chunks)
            /\ UNCHANGED jsonl_file
       ELSE /\ jsonl_file' = jsonl_file \o dumps(Record(idx, parsed')) \o <<Nl>>
            /\ idx' = idx + 1
            /\ UNCHANGED skipped
    /\ pc' = "loop"
    /\ UNCHANGED <<raw_text, tickets, chunks, posts, responses, raw_output,
                   jsonl_open, gen_calls, html_file>>

\* extract_json, then skip the chunk or write its record
Settle ==
    /\ pc = "parse"
    /\ parsed' = extract_json(raw_output)
    /\ IF parsed'.t = "null"
       THEN /\ skipped' = Append(skipped, idx)
            /\ UNCHANGED jsonl_file
       ELSE /\ jsonl_file' = jsonl_file \o dumps(Record(idx, parsed')) \o <<Nl>>
            /\ UNCHANGED skipped
    /\ idx' = idx + 1
    /\ pc' = "loop"
    /\ UNCHANGED <<raw_text, tickets, chunks, posts, responses, raw_output,
                   jsonl_open, gen_calls, html_file>>

\* mutant: the loop may be left once one chunk has been handled
CloseFile_early ==
    /\ pc = "loop"
    /\ idx >= 1
    /\ jsonl_open' = "closed"
    /\ pc' = "html"
    /\ UNCHANGED <<raw_text, tickets, chunks, idx, posts, responses, raw_output,
                   parsed, skipped, jsonl_file, gen_calls, html_file>>

\* loop exit and jsonl_file.close()
CloseFile ==
    /\ pc = "loop"
    /\ idx = Len(chunks)
    /\ jsonl_open' = "closed"
    /\ pc' = "html"
    /\ UNCHANGED <<raw_text, tickets, chunks, idx, posts, responses, raw_output,
                   parsed, skipped, jsonl_file, gen_calls, html_file>>

\* generate_html and the final print; an exception propagates out of main
GenerateHtml ==
    /\ pc = "html"
    /\ gen_calls' = gen_calls + 1
    /\ \E r \in {generate_html(jsonl_file)} :
          IF r.ok
          THEN /\ html_file' = [written |-> TRUE, cards |-> r.cards]
               /\ pc' = "done"
          ELSE /\ pc' = "raised"
               /\ UNCHANGED html_file
    /\ UNCHANGED <<raw_text, tickets, chunks, idx, posts, responses, raw_output,
                   parsed, skipped, jsonl_open, jsonl_file>>

(***************************************************************************)
(* Inputs                                                                  *)
(***************************************************************************)
MaxTickets == 5
MaxLines == 5
MaxChunkTickets == 7
MaxReplyLen == 4

SeqsUpTo(S, n) == UNION {[1..m -> S] : m \in 0..n}

Flatten(ss) == Concat(ss, 1, Len(ss), <<>>)

\* input dumps of the whole pipeline: an optional preamble and n tickets
TicketBlock == <<Jira, Ws, Txt("x"), Nl, Key1, Ws, Txt("x"), Nl, Txt("x"), Nl, Nl>>
Preamble == <<Txt("x"), Nl>>
MainTexts ==
    {pre \o Flatten([i \in 1..n |-> TicketBlock]) :
        pre \in {<<>>, Preamble}, n \in 0..MaxTickets}

\* replies of the model
Wrap(toks) == <<TagOpen, Nl>> \o toks \o <<Nl, TagClose>>

FullObj ==
    Obj(<<Pair("ticket_key", Str("G7APP-1")), Pair("status", Str("Open")),
          Pair("category", Str("Solvable Bug")), Pair("summary", Str("s")),
          Pair("root_cause", Arr(<<Str("rc")>>)), Pair("reasoning", Arr(<<Str("r")>>)),
          Pair("fix_recommendation", Arr(<<Str("f")>>)), Pair("risk", Arr(<<Str("k")>>)),
          Pair("missing_details", Arr(<<>>)), Pair("link", Str(""))>>)

PartObj == Obj(<<Pair("ticket_key", Str("G7APP-22")), Pair("category", Str("Needs More Details"))>>)

Prose == Txt("Here is the analysis")

ReplyTexts ==
    { <<Prose>>,
      <<TagClose, P("["), P("]"), TagOpen>>,
      <<TagOpen, Prose, TagClose>>,
      <<TagOpen, P("["), P("{"), P("}"), P(","), P("]"), TagClose>>,
      <<Prose, Nl>> \o Wrap(dumps(Arr(<<FullObj, Obj(<<>>)>>))) \o <<Nl, Prose>>,
      Wrap(dumps(PartObj)),
      Wrap(dumps(Arr(<<>>))),
      Wrap(dumps(Null)),
      Wrap(dumps(Str(""))),
      Wrap(dumps(Str("ab"))),
      Wrap(dumps(Num(5))),
      Wrap(dumps(Bool(TRUE))),
      Wrap(dumps(Arr(<<FullObj, Num(5)>>))),
      Wrap(dumps(Arr(<<Obj(<<Pair("root_cause", Num(5))>>)>>))),
      Wrap(dumps(Arr(<<Obj(<<Pair("ticket_key", Num(5))>>)>>))) }

Responses ==
    { Response(TRUE, 0, FALSE, <<>>),
      Response(FALSE, 500, FALSE, <<>>),
      Response(FALSE, 200, FALSE, <<>>) }
    \cup {Response(FALSE, 200, TRUE, t) : t \in ReplyTexts}

(***************************************************************************)
(* The pipeline                                                            *)
(***************************************************************************)
Init ==
    /\ pc = "start"
    /\ raw_text \in MainTexts
    /\ tickets = <<>>
    /\ chunks = <<>>
    /\ idx = 0
    /\ posts = <<>>
    /\ responses = <<>>
    /\ raw_output = PyNone
    /\ parsed = Null
    /\ skipped = <<>>
    /\ jsonl_open = "unopened"
    /\ jsonl_file = <<>>
    /\ gen_calls = 0
    /\ html_file = NoReport

Next ==
    \/ ExtractTickets
    \/ ChunkTickets
    \/ Post
    \/ \E resp \in Responses : Receive(resp)
    \/ Settle
    \/ CloseFile
    \/ GenerateHtml

Spec == Init /\ [][Next]_vars

\* every HTTP call returns or times out, and the script's own steps run
FairSpec == Spec /\ WF_vars(Next)

TypeOK ==
    /\ pc \in {"start", "no_tickets", "chunk", "loop", "wait", "parse", "html", "done", "raised"}
    /\ idx \in 0..Len(chunks)
    /\ jsonl_open \in {"unopened", "open", "closed"}
    /\ gen_calls \in 0..1

(***************************************************************************)
(* Specifications of single steps over bounded inputs                      *)
(***************************************************************************)
\* a state of main() at position p of a run over one ticket
OneTicketText == TicketBlock

AtStep(p) ==
    /\ pc = p
    /\ raw_text = OneTicketText
    /\ tickets = extract_tickets(OneTicketText)
    /\ chunks = chunk_tickets(extract_tickets(OneTicketText))
    /\ gen_calls = 0
    /\ html_file = NoReport

\* extract_tickets over every text of at most MaxLines lines
LineKinds ==
    { <<>>, <<Txt("x")>>, <<Ws, Jira>>, <<Jira, Ws>>,
      <<Key1, Ws, Txt("x")>>, <<Key2, Ws, Jira>> }

TicketTexts == {join(Nl, ls) : ls \in SeqsUpTo(LineKinds, MaxLines)}

InitTickets ==
    /\ pc = "start"
    /\ raw_text \in TicketTexts
    /\ tickets = <<>>
    /\ chunks = <<>>
    /\ idx = 0
    /\ posts = <<>>
    /\ responses = <<>>
    /\ raw_output = PyNone
    /\ parsed = Null
    /\ skipped = <<>>
    /\ jsonl_open = "unopened"
    /\ jsonl_file = <<>>
    /\ gen_calls = 0
    /\ html_file = NoReport

SpecTickets == InitTickets /\ [][ExtractTickets]_vars

\* chunk_tickets over every list of at most MaxChunkTickets tickets
TicketPool ==
    { <<Jira, Nl, Key1>>,
      <<Jira, Ws, Txt("x"), Nl, Key2, Nl, Txt("x")>> }

InitChunk ==
    /\ pc = "chunk"
    /\ raw_text = <<>>
    /\ tickets \in SeqsUpTo(TicketPool, MaxChunkTickets)
    /\ chunks = <<>>
    /\ idx = 0
    /\ posts = <<>>
    /\ responses = <<>>
    /\ raw_output = PyNone
    /\ parsed = Null
    /\ skipped = <<>>
    /\ jsonl_open = "unopened"
    /\ jsonl_file = <<>>
    /\ gen_calls = 0
    /\ html_file = NoReport

SpecChunk == InitChunk /\ [][ChunkTickets]_vars

\* extract_json over every reply of at most MaxReplyLen tokens, and the
\* replies of the pipeline
ReplyAlphabet ==
    { TagOpen, TagClose, Ws, P("["), P("]"), P("{"), P("}"),
      TNum(5), TStr("ab"), Prose }

JsonResponses ==
    { Response(TRUE, 0, FALSE, <<>>) }
    \cup {Response(FALSE, 200, TRUE, t) : t \in SeqsUpTo(ReplyAlphabet, MaxReplyLen) \cup ReplyTexts}

InitJson ==
    /\ AtStep("parse")
    /\ idx = 0
    /\ posts = <<0>>
    /\ \E resp \in JsonResponses :
        /\ responses = <<[chunk |-> 0, resp |-> resp]>>
        /\ raw_output = call_gemini_result(resp)
    /\ parsed = Null
    /\ skipped = <<>>
    /\ jsonl_open = "open"
    /\ jsonl_file = <<>>

SpecJson == InitJson /\ [][Settle]_vars

\* generate_html over one record holding one result object
Absent == [t |-> "absent"]

Field(key, v) == IF v = Absent THEN <<>> ELSE <<Pair(key, v)>>

CardObjs ==
    { Obj(Field("ticket_key", tk) \o Field("status", st) \o Field("category", cat)
          \o Field("summary", sm) \o Field("root_cause", rc) \o Field("reasoning", re)
          \o Field("fix_recommendation", fx) \o Field("risk", rk)
          \o Field("missing_details", md) \o Field("link", lk)) :
        tk \in {Absent, Str(""), Str("G7APP-1"), Num(5)},
        st \in {Absent, Str("Open")},
        cat \in {Absent, Str("Solvable Bug"), Str("Needs More Details"), Str("Not a Bug"), Null},
        sm \in {Absent, Str("s")},
        rc \in {Absent, Arr(<<>>), Arr(<<Str("a"), Null, Num(5)>>), Arr(<<Null>>), Str("ab"), Num(5)},
        re \in {Absent, Arr(<<Str("a")>>)},
        fx \in {Absent, Arr(<<Str("a")>>)},
        rk \in {Absent, Arr(<<Str("a")>>)},
        md \in {Absent, Arr(<<Str("a")>>)},
        lk \in {Absent, Str(""), Str("http://x/1"), Null} }

InitCard ==
    /\ AtStep("html")
    /\ idx = 1
    /\ posts = <<0>>
    /\ \E o \in CardObjs :
        /\ parsed = Arr(<<o>>)
        /\ raw_output = PyText(Wrap(dumps(Arr(<<o>>))))
        /\ responses = <<[chunk |-> 0, resp |-> Response(FALSE, 200, TRUE, Wrap(dumps(Arr(<<o>>))))]>>
        /\ jsonl_file = dumps(Record(0, Arr(<<o>>))) \o <<Nl>>
    /\ skipped = <<>>
    /\ jsonl_open = "closed"

SpecCard == InitCard /\ [][GenerateHtml]_vars

(***************************************************************************)
(* Properties                                                              *)
(***************************************************************************)
\* the records of the JSONL file, read back line by line
FileRecords(file) ==
    LET lines == SplitLines(file) IN
    [i \in 1..Len(lines) |-> loads(lines[i]).val]

ParsedOf(r) == extract_json(call_gemini_result(r.resp))
Failed(resp) == resp.exc \/ resp.status # 200 \/ ~resp.shape_ok
AfterLoop == pc \in {"html", "done", "raised"}

\* C1: whatever the model replies to each chunk, main() never leaves
\* generate_html with an uncaught exception (it reaches the final DONE step).
C1_NoUncaughtException == pc # "raised"

\* C2: a chunk whose call failed or whose reply did not parse leaves no
\* record and does not stop the loop: the file holds, in increasing chunk
\* order, exactly the records {"chunk": idx, "results": parsed} of the
\* handled chunks whose reply parsed, and after the loop every chunk has
\* been handled.
C2_FailureDiscardsOnlyThatChunk ==
    LET recs == FileRecords(jsonl_file)
        handled == SelectSeq(responses, LAMBDA r : r.chunk < idx)
        good == SelectSeq(handled, LAMBDA r : ParsedOf(r).t # "null")
    IN /\ Len(recs) = Len(good)
       /\ \A j \in 1..Len(recs) : recs[j] = Record(good[j].chunk, ParsedOf(good[j]))
       /\ \A j \in 1..(Len(recs) - 1) :
            get(recs[j], "chunk", Null).n < get(recs[j + 1], "chunk", Null).n
       /\ \A j \in 1..Len(handled) :
            Failed(handled[j].resp) =>
                \A m \in 1..Len(recs) : get(recs[m], "chunk", Null) # Num(handled[j].chunk)
       /\ AfterLoop => {responses[j].chunk : j \in 1..Len(responses)} = 0..(Len(chunks) - 1)

C2_Witness ==
    /\ pc = "html"
    /\ Len(chunks) >= 2
    /\ skipped # <<>>
    /\ \E m \in 1..Len(FileRecords(jsonl_file)) :
          get(FileRecords(jsonl_file)[m], "chunk", Null).n > skipped[1]
    /\ \E j \in 1..Len(responses) : Failed(responses[j].resp)

\* C3: requests are issued one per chunk, in chunk order, never twice for
\* the same chunk, each only after the previous chunk was written or
\* skipped; after the loop their number is the number of chunks.
C3_OneRequestPerChunkInOrder ==
    LET settled == Len(FileRecords(jsonl_file)) + Len(skipped) IN
    /\ \A j \in 1..Len(posts) : posts[j] = j - 1
    /\ settled = idx
    /\ Len(posts) = IF pc \in {"wait", "parse"} THEN settled + 1 ELSE settled
    /\ AfterLoop => Len(posts) = Len(chunks)

C3_Witness ==
    /\ pc = "done"
    /\ Len(chunks) >= 2
    /\ Len(posts) = Len(chunks)
    /\ \E j \in 1..Len(responses) : Failed(responses[j].resp)

\* the lines of a text, as the 0-based positions at which they start
LineStarts(text) == {0} \cup {q \in 1..Len(text) : text[q] = Nl}
LineAt(text, q) ==
    LET stop == CHOOSE e \in q..Len(text) :
                    /\ e = Len(text) \/ text[e + 1] = Nl
                    /\ \A f \in (q + 1)..e : text[f] # Nl
    IN SubSeq(text, q + 1, stop)
HasNextLine(text, q) == q + Len(LineAt(text, q)) < Len(text)
NextLineStart(text, q) == q + Len(LineAt(text, q)) + 1
IsJiraLine(line) == \E i \in 1..Len(line) : line[i] = Jira
IsKeyLine(line) == line # <<>> /\ line[1] \in KeyTokens

\* a "Jira" line immediately followed by a [G7APP-<digits>] line
PairStarts(text) ==
    {q \in LineStarts(text) :
        /\ IsJiraLine(LineAt(text, q))
        /\ HasNextLine(text, q)
        /\ IsKeyLine(LineAt(text, NextLineStart(text, q)))}

RECURSIVE Ascending(_)
Ascending(S) ==
    IF S = {} THEN <<>>
    ELSE LET m == CHOOSE x \in S : \A y \in S : x <= y IN <<m>> \o Ascending(S \ {m})

TicketPerPair(text) ==
    LET st == Ascending(PairStarts(text)) IN
    [k \in 1..Len(st) |->
        strip(SubSeq(text, st[k] + 1, IF k < Len(st) THEN st[k + 1] ELSE Len(text)))]

\* C4: extract_tickets returns one ticket per line pair ("Jira" line, then
\* a line starting with [G7APP-<digits>]), each running from its "Jira"
\* line to the next pair's "Jira" line or the end of the text, stripped.
C4_OneTicketPerLinePair ==
    pc # "start" => tickets = TicketPerPair(raw_text)

\* the parts of a chunk between separators
RECURSIVE Split(_)
Split(chunk) ==
    LET e == find(chunk, Sep) IN
    IF e = -1 THEN <<chunk>>
    ELSE <<SubSeq(chunk, 1, e)>> \o Split(SubSeq(chunk, e + 2, Len(chunk)))

\* C5: n tickets give ceil(n / 3) chunks; chunk j is tickets 3j .. 3j+2
\* joined by the separator, so every chunk but the last holds 3 tickets,
\* the last 1 to 3, and the chunks read in order are the tickets in order;
\* no ticket gives no chunk.
C5_FixedSizeBatchesLoseNothing ==
    pc = "loop" =>
        LET n == Len(tickets)
            parts == [j \in 1..Len(chunks) |-> Split(chunks[j])]
        IN /\ Len(chunks) = (n + 2) \div 3
           /\ n = 0 => chunks = <<>>
           /\ \A j \in 1..Len(chunks) :
                /\ Len(parts[j]) \in 1..3
                /\ j < Len(chunks) => Len(parts[j]) = 3
                /\ parts[j] = SubSeq(tickets, 3 * (j - 1) + 1, Min(3 * j, n))
           /\ Flatten(parts) = tickets

C5_Witness ==
    /\ pc = "loop"
    /\ Len(tickets) >= 7
    /\ Len(tickets) % 3 # 0
    /\ tickets[1] # tickets[2]

\* C6: extract_json returns None or a list, so the "results" of every
\* record written to the JSONL file is a list.
C6_ParsedIsNoneOrList ==
    pc = "loop" =>
        /\ parsed.t \in {"null", "arr"}
        /\ \A j \in 1..Len(FileRecords(jsonl_file)) :
              get(FileRecords(jsonl_file)[j], "results", Null).t = "arr"

Has(o, key) == \E i \in 1..Len(o.o) : o.o[i].k = key
NonEmptyAt(o, key) == Has(o, key) /\ Truthy(get(o, key, Null))

\* C7: in a rendered card a missing ticket_key, status, category or summary
\* is the empty string and a missing list field the single item "-"; the
\* link is the object's non-empty "link", else JIRA_DOMAIN + ticket_key for
\* a non-empty ticket_key, else "#"; the badge is green exactly for
\* "Solvable Bug", amber exactly for "Needs More Details", gray otherwise.
C7_DefaultsForMissingKeys ==
    (pc = "done" /\ Len(html_file.cards) = 1 /\ parsed.t = "arr" /\ Len(parsed.a) = 1) =>
        LET o == parsed.a[1]
            c == html_file.cards[1]
        IN /\ ~Has(o, "ticket_key") => c.ticket_key = ""
           /\ ~Has(o, "status") => c.status = ""
           /\ ~Has(o, "category") => c.category = ""
           /\ ~Has(o, "summary") => c.summary = ""
           /\ ~Has(o, "root_cause") => c.root_cause = "<li>-</li>"
           /\ ~Has(o, "reasoning") => c.reasoning = "<li>-</li>"
           /\ ~Has(o, "fix_recommendation") => c.fix = "<li>-</li>"
           /\ ~Has(o, "risk") => c.risk = "<li>-</li>"
           /\ ~Has(o, "missing_details") => c.missing = "<li>-</li>"
           /\ c.link = IF NonEmptyAt(o, "link") THEN get(o, "link", Null).s
                       ELSE IF NonEmptyAt(o, "ticket_key")
                            THEN "https://your-jira-domain/browse/" \o get(o, "ticket_key", Null).s
                       ELSE "#"
           /\ c.badge_class = "green" <=> (Has(o, "category") /\ get(o, "category", Null) = Str("Solvable Bug"))
           /\ c.badge_class = "amber" <=> (Has(o, "category") /\ get(o, "category", Null) = Str("Needs More Details"))
           /\ c.badge_class \in {"green", "amber", "gray"}

C7_Witness ==
    /\ pc = "done"
    /\ Len(html_file.cards) = 1
    /\ ~Has(parsed.a[1], "category")
    /\ ~Has(parsed.a[1], "root_cause")
    /\ ~Has(parsed.a[1], "summary")
    /\ NonEmptyAt(parsed.a[1], "link")
    /\ NonEmptyAt(parsed.a[1], "ticket_key")
    /\ html_file.cards[1].badge_class = "gray"

\* the result objects of the chunks whose reply led to a record, in order
RECURSIVE ResultsOf(_)
ResultsOf(rs) ==
    IF rs = <<>> THEN <<>>
    ELSE (IF ParsedOf(rs[1]).t = "arr" THEN ParsedOf(rs[1]).a ELSE <<>>) \o ResultsOf(Tail(rs))

RECURSIVE SumLen(_)
SumLen(recs) ==
    IF recs = <<>> THEN 0
    ELSE (LET r == get(recs[1], "results", Null) IN IF r.t = "arr" THEN Len(r.a) ELSE 0)
         + SumLen(Tail(recs))

\* C8: once main() has completed, the report holds one card per element of
\* the "results" of each JSONL record, in chunk order and within a chunk in
\* the order of the model's array; a skipped chunk gives no card.
C8_ReportMirrorsJsonl ==
    pc = "done" =>
        LET srcs == ResultsOf(responses) IN
        /\ html_file.written
        /\ Len(html_file.cards) = SumLen(FileRecords(jsonl_file))
        /\ Len(html_file.cards) = Len(srcs)
        /\ \A j \in 1..Len(srcs) : html_file.cards[j] = render_card(srcs[j]).card

C8_Witness ==
    /\ pc = "done"
    /\ skipped # <<>>
    /\ Len(FileRecords(jsonl_file)) >= 1
    /\ Len(html_file.cards) >= 2
    /\ html_file.cards[1] # html_file.cards[2]

PipelineOrder ==
    /\ jsonl_open = "unopened" <=> pc \in {"start", "no_tickets", "chunk"}
    /\ jsonl_open = "closed" <=> AfterLoop
    /\ AfterLoop => idx = Len(chunks) /\ Len(responses) = Len(chunks)
    /\ gen_calls = (IF pc \in {"done", "raised"} THEN 1 ELSE 0)
    /\ pc = "done" => html_file.written
    /\ (AfterLoop /\ Len(skipped) = Len(chunks)) => jsonl_file = <<>> /\ pc # "raised"

\* C9: with at least one ticket the JSONL file is opened, every chunk is
\* handled, the file is closed and only then generate_html is called,
\* exactly once, whatever the outcomes of the chunks; when every chunk
\* fails the file stays empty and the report is written with no card; and
\* main() terminates given that every HTTP call returns or times out.
C9_FixedOrderAndTermination ==
    /\ []PipelineOrder
    /\ (pc = "chunk") ~> (gen_calls = 1)
    /\ (pc = "html" /\ Len(skipped) = Len(chunks))
          ~> (pc = "done" /\ html_file = [written |-> TRUE, cards |-> <<>>])
    /\ <>(pc \in {"no_tickets", "done", "raised"})

C9_Witness ==
    /\ pc = "done"
    /\ Len(chunks) >= 2
    /\ Len(skipped) = Len(chunks)
    /\ html_file = [written |-> TRUE, cards |-> <<>>]
    /\ jsonl_file = <<>>

====
